---- MODULE Spec2Model ----
(***************************************************************************)
(* A model of simdjson-go's parse orchestration:                           *)
(*   - ParseNDStream (src/unnamed/part_001): the reader goroutine that     *)
(*     chunks the source, the chunk goroutines, the sequencer goroutine    *)
(*     and the consumer of the output channel;                             *)
(*   - Parse / ParseND / newInternalParsedJson (src/unnamed/part_001) and  *)
(*     internalParsedJson.initialize / parseMessage                        *)
(*     (src/parse_json_amd64.go), with stage 1 and stage 2 as the two      *)
(*     ends of the index channel.                                          *)
(*                                                                         *)
(* Bytes of the source are "a" (a byte of a well-formed record), "x" (a    *)
(* byte that makes the record it belongs to malformed) and "\n".           *)
(***************************************************************************)
EXTENDS Integers, Sequences, FiniteSets, TLC

\* ------------------------------------------------------------- bounds
\* Longest source of ParseNDStream, in bytes.
MaxSrc == 4
\* Largest GOMAXPROCS considered.
MaxProcs == 3
\* The block size of ParseNDStream (10 << 20 in the source), scaled down;
\* it is also the size of the bufio.Reader.
tmpSize == 2

\* Longest index stream of a Parse / ParseND message, in structural tokens.
MaxToks == 3
\* Number of structural indexes in one entry of the index channel: an
\* index-stream entry is one byte offset of a structural token.
IndexBatch == 1
\* indexSlots, the number of index buffers of an internalParsedJson, scaled
\* down; the index channel has indexSlots - 2 places.
indexSlots == 4
\* Width in bits of pj.buffersOffset (64 in the source), scaled down.
OffsetBits == 4

\* maxdepth, the capacity of the scope stack.
maxdepth == 128
\* 8 << 10: longer messages run the two stages concurrently.
SequentialMax == 8192

Bytes == {"a", "x", "\n"}

\* Structural tokens of a message: "o" opens a container, "c" closes one, "v"
\* is a string value.
Tokens == {"o", "c", "v"}

\* Most passes of the reader of ParseNDStream followed in the flow of its
\* buffers.
MaxChunks == 3
\* Capacity of the channel reuse, which the caller makes.
ReuseCap == 1

\* ------------------------------------------------ inputs of parseNumber
\* Longest buffer handed to parseNumber, the literals below apart.
MaxNum == 5
\* The bytes of those buffers: digits, sign, point, exponent marker, an
\* end-of-value byte and a byte that is in no number.
NumChars == {"0", "1", "-", "+", ".", "e", ",", "x"}

\* The decimal digits in order: DigitChars[d + 1] is the character of digit d.
DigitChars == <<"0", "1", "2", "3", "4", "5", "6", "7", "8", "9">>

\* 1<<63, 1<<63 - 1, 1<<64 and 1<<64 - 1 as sequences of decimal digits.
TwoTo63 == <<9,2,2,3,3,7,2,0,3,6,8,5,4,7,7,5,8,0,8>>
MaxInt64 == <<9,2,2,3,3,7,2,0,3,6,8,5,4,7,7,5,8,0,7>>
TwoTo64 == <<1,8,4,4,6,7,4,4,0,7,3,7,0,9,5,5,1,6,1,6>>
MaxUint64 == <<1,8,4,4,6,7,4,4,0,7,3,7,0,9,5,5,1,6,1,5>>

\* The characters of a decimal literal.
Lit(neg, d) == (IF neg THEN <<"-">> ELSE <<>>) \o [k \in 1..Len(d) |-> DigitChars[d[k] + 1]]

\* Long tokens around the limits of int64 and uint64, alone and followed by
\* an end of value, and tokens with a leading zero.
NumLiterals ==
    {Lit(FALSE, MaxInt64), Lit(FALSE, TwoTo63), Lit(FALSE, MaxUint64), Lit(FALSE, TwoTo64),
     Lit(TRUE, TwoTo63), Lit(TRUE, <<9,2,2,3,3,7,2,0,3,6,8,5,4,7,7,5,8,0,9>>),
     Lit(TRUE, MaxInt64), Lit(TRUE, MaxUint64),
     Lit(FALSE, <<1,0,0,0,0,0,0,0,0,0,0,0,0,0,0,0,0,0,0,0>>),
     Lit(FALSE, <<9,9,9,9,9,9,9,9,9,9,9,9,9,9,9,9,9,9,9,9>>),
     Lit(TRUE, <<9,9,9,9,9,9,9,9,9,9,9,9,9,9,9,9,9,9,9>>),
     Lit(FALSE, <<1,0,0,0,0,0,0,0,0,0,0,0,0,0,0,0,0,0,0,0,0>>),
     Lit(FALSE, TwoTo63) \o <<",">>, Lit(FALSE, MaxUint64) \o <<"}">>,
     Lit(TRUE, TwoTo63) \o <<"]", "x">>,
     Lit(FALSE, <<0,1>>) \o <<".", "5">>, Lit(TRUE, <<0,1>>) \o <<".", "5">>,
     Lit(FALSE, <<0>>) \o <<".", "5">>, Lit(TRUE, <<0>>) \o <<".", "5">>,
     Lit(FALSE, <<0>>) \o <<"E", "1">>, Lit(TRUE, <<0,1>>) \o <<"e", "1">>,
     Lit(TRUE, <<0,1,1,1,1,1,1,1,1,1,1,1,1,1,1,1,1,1,1,1,1>>),
     Lit(FALSE, <<0,1,1,1,1,1,1,1,1,1,1,1,1,1,1,1,1,1,1,1,1>>)}

\* error values
ErrNil == "nil"
ErrEOF == "io.EOF"
ErrIO == "read error"
ErrCPU == "Host CPU does not meet target specs"
ErrParse == "parsing input"
ErrStage1 == "Failed to find all structural indices for stage 1"
ErrStage2 == "Bad parsing while executing stage 2"

VARIABLES
    entry,        \* the entry point that was called
    supported,    \* SupportedCPU()
    gomaxprocs,   \* runtime.GOMAXPROCS(0)
    src,          \* the bytes the io.Reader r will return
    srcEnd,       \* the error r returns after its last byte: io.EOF or a read error
    srcRead,      \* TRUE once r.Read was called
    fetched,      \* number of bytes bufio has read from r
    buffered,     \* bytes in bufio's buffer, fetched and not consumed
    bErr,         \* bufio's pending error b.err
    rd,           \* reader goroutine: pc, tmp, tmpEnd (where tmp ends in src), err
    fut,          \* the result channels made so far, in submission order: kind,
                  \* data and dataEnd (the chunk and where it ends in src), st,
                  \* val (the Stream sent on it), order (rank of completion)
    queue,        \* channel queue: ids (indexes in fut) of the queued result channels
    queueClosed,  \* close(queue) was executed
    sq,           \* sequencer goroutine: pc, items, i, end
    cpu,          \* pc of the goroutine of the unsupported-CPU path
    delivered,    \* items received by the consumer on res, in order
    ready,        \* the consumer is blocked in a receive on res
    resClosed,    \* number of close(res) executed
    panicked,     \* a send on res was attempted after close(res)
    dropped,      \* ids of the items the sequencer gave up sending
    pj,           \* the internalParsedJson a Parse / ParseND call works on
    indexChans,   \* the entries in the channel pj.indexChans
    pm,           \* the running Parse / ParseND call and its parseMessage
    g2,           \* the stage-2 goroutine of parseMessage's concurrent branch
    reuse,        \* what the caller holds to pass as reuse: "nil", "internal"
                  \* (a ParsedJson whose internal field points to pj) or "plain"
    ret,          \* what the last Parse / ParseND call returned
    pmCalled,     \* TRUE once parseMessage was called by Parse / ParseND
    buf,          \* the buffer handed to parseNumber
    num,          \* the call of parseNumber: done, and the id and val returned
    tmpPool,      \* the byte slices in tmpPool: array (the backing array,
                  \* which names it) and by (who put it there, a history field)
    arrays,       \* number of backing arrays made so far, by the pool or by
                  \* append; 1..arrays are their names
    bufReader,    \* the reader as the holder of tmp: pc, tmp, n (passes done),
                  \* got (where tmp came from, a history field)
    tasks,        \* the running chunk goroutines as holders of buffers: n (the
                  \* pass that started it), pc, tmp, v (the result received
                  \* from reuse, 0 if none)
    parsed,       \* the results sent with a Value and still in use: id (the
                  \* pass whose goroutine made it), Message (its backing array,
                  \* 0 for nil), keep (cap(Message) >= tmpSize+1024), owner
    reuseChan     \* the results in the channel reuse, by name

streamVars == <<entry, supported, gomaxprocs, src, srcEnd, srcRead, fetched, buffered,
                bErr, rd, fut, queue, queueClosed, sq, cpu, delivered, ready,
                resClosed, panicked, dropped>>

\* The buffer and the result of parseNumber; no step of the orchestration
\* touches them.
numVars == <<buf, num>>

\* The buffers of ParseNDStream and their holders.
poolVars == <<tmpPool, arrays, bufReader, tasks, parsed, reuseChan>>

cfgVars == <<entry, supported, gomaxprocs, src, srcEnd, numVars, poolVars>>
ioVars == <<srcRead, fetched, buffered, bErr>>
outVars == <<delivered, ready, resClosed, panicked, dropped>>

streamState == <<ioVars, outVars, rd, fut, queue, queueClosed, sq, cpu>>
parseVars == <<pj, indexChans, pm, g2, reuse, ret, pmCalled>>

vars == <<streamVars, parseVars, numVars, poolVars>>

\* ------------------------------------------------------------ helpers
Min(a, b) == IF a < b THEN a ELSE b

SeqsUpTo(S, n) == UNION {[1..k -> S] : k \in 0..n}

NilValue == [isNil |-> TRUE, Message |-> <<>>]

\* Stream{Value, Error}; id is the index of the result channel it travels on
\* (a history field, not part of the Go value).
Item(v, e, id) == [Value |-> v, Error |-> e, id |-> id]

\* conc := (runtime.GOMAXPROCS(0) + 1) / 2
conc == (gomaxprocs + 1) \div 2

\* Position of the first "\n" of src after position p, 0 when there is none.
NextNewline(p) ==
    LET S == {k \in (p + 1)..Len(src) : src[k] = "\n"}
    IN  IF S = {} THEN 0 ELSE CHOOSE k \in S : \A j \in S : k <= j

\* pj.parseMessage(tmp, true) of a chunk goroutine: the chunk fails to parse
\* iff one of its records is malformed.
ChunkParses(data) == \A k \in 1..Len(data) : data[k] # "x"

\* The Stream a chunk goroutine sends on its result channel.
ChunkResult(data, id) ==
    IF ChunkParses(data)
    THEN Item([isNil |-> FALSE, Message |-> data], ErrNil, id)
    ELSE Item(NilValue, ErrParse, id)

\* ---------------------------------------------------------------- Init
\* ParsedJson{} inside a new internalParsedJson{}: every field is zero.
NoIndexChan == [index |-> 0, length |-> 0, indexes |-> <<>>]
NoMessage == [toks |-> <<>>, len |-> 0, bad |-> FALSE]

FreshPj ==
    [Tape |-> <<>>, capTape |-> 0,
     Strings |-> <<>>, stringsNil |-> TRUE, capStrings |-> 0,
     containingScopeOffset |-> <<>>, capScope |-> 0,
     indexesChan |-> NoIndexChan, indexChansNil |-> TRUE,
     ndjson |-> 0, buffersOffset |-> 0, Message |-> NoMessage,
     copyStrings |-> FALSE]

NoCall == [pc |-> "idle", fn |-> "", arg |-> "nil", stale |-> FALSE, sent |-> 0,
           errStage1 |-> ErrNil, sufficient |-> FALSE, kept |-> FALSE]
NoG2 == [pc |-> "none", err |-> ErrNil]
NoRet == [fn |-> "", isNil |-> TRUE, err |-> ErrNil, recycled |-> FALSE, stale |-> FALSE]

Init ==
    /\ entry \in {"ParseNDStream", "Parse", "parseNumber", "ParseNDStreamBuffers"}
    /\ supported \in IF entry \in {"parseNumber", "ParseNDStreamBuffers"} THEN {TRUE} ELSE BOOLEAN
    /\ gomaxprocs \in IF entry = "ParseNDStream" THEN 1..MaxProcs ELSE {1}
    /\ src \in IF entry = "ParseNDStream" THEN SeqsUpTo(Bytes, MaxSrc) ELSE {<<>>}
    /\ srcEnd \in IF entry = "ParseNDStream" THEN {ErrEOF, ErrIO} ELSE {ErrEOF}
    /\ srcRead = FALSE
    /\ fetched = 0
    /\ buffered = <<>>
    /\ bErr = ErrNil
    /\ rd = [pc |-> "start", tmp |-> <<>>, tmpEnd |-> 0, err |-> ErrNil]
    /\ fut = <<>>
    /\ queue = <<>>
    /\ queueClosed = FALSE
    /\ sq = [pc |-> "start", items |-> 0, i |-> Item(NilValue, ErrNil, 0), end |-> FALSE]
    /\ cpu = "start"
    /\ delivered = <<>>
    /\ ready = FALSE
    /\ resClosed = 0
    /\ panicked = FALSE
    /\ dropped = <<>>
    /\ pj = FreshPj
    /\ indexChans = <<>>
    /\ pm = NoCall
    /\ g2 = NoG2
    /\ reuse = "nil"
    /\ ret = NoRet
    /\ pmCalled = FALSE
    /\ buf \in IF entry = "parseNumber"
                THEN SeqsUpTo(NumChars, MaxNum) \cup NumLiterals
                ELSE {<<>>}
    /\ num = [done |-> FALSE, id |-> [tag |-> "TagEnd", flags |-> {}], val |-> <<0>>]
    /\ tmpPool = {}
    /\ arrays = 0
    /\ bufReader = [pc |-> IF entry = "ParseNDStreamBuffers" THEN "get" ELSE "none",
                    tmp |-> 0, n |-> 0, got |-> "none"]
    /\ tasks = {}
    /\ parsed = {}
    /\ reuseChan = <<>>

\* ------------------------------------------------- ParseNDStream: entry
\* ParseNDStream without the capability gate.
CallParseNDStreamNoGate ==
    /\ entry = "ParseNDStream"
    /\ rd.pc = "start" /\ sq.pc = "start" /\ cpu = "start"
    /\ cpu' = "none"
    /\ rd' = [rd EXCEPT !.pc = "read"]
    /\ sq' = [sq EXCEPT !.pc = "range"]
    /\ UNCHANGED <<cfgVars, parseVars, ioVars, outVars, fut, queue, queueClosed>>

\* ParseNDStream: the capability gate, then the goroutines are started.
CallParseNDStream ==
    /\ entry = "ParseNDStream"
    /\ rd.pc = "start" /\ sq.pc = "start" /\ cpu = "start"
    /\ IF ~supported
       THEN /\ cpu' = "send"
            /\ rd' = [rd EXCEPT !.pc = "none"]
            /\ sq' = [sq EXCEPT !.pc = "none"]
       ELSE /\ cpu' = "none"
            /\ rd' = [rd EXCEPT !.pc = "read"]
            /\ sq' = [sq EXCEPT !.pc = "range"]
    /\ UNCHANGED <<cfgVars, parseVars, ioVars, outVars, fut, queue, queueClosed>>

\* The unsupported-CPU goroutine: res <- Stream{nil, error} (a blocking send).
CpuSend ==
    /\ cpu = "send"
    /\ IF resClosed > 0
       THEN /\ panicked' = TRUE /\ cpu' = "panic" /\ UNCHANGED <<delivered, ready>>
       ELSE /\ ready
            /\ delivered' = Append(delivered, Item(NilValue, ErrCPU, 0))
            /\ ready' = FALSE
            /\ cpu' = "close"
            /\ UNCHANGED panicked
    /\ UNCHANGED <<cfgVars, parseVars, ioVars, rd, fut, queue, queueClosed, sq, resClosed, dropped>>

\* The unsupported-CPU goroutine: close(res).
CpuClose ==
    /\ cpu = "close"
    /\ resClosed' = resClosed + 1
    /\ cpu' = "done"
    /\ UNCHANGED <<cfgVars, parseVars, ioVars, rd, fut, queue, queueClosed, sq, delivered, ready, panicked, dropped>>

\* ------------------------------------------------ ParseNDStream: reader
\* AfterChunk without the final queueError(queue, err): the reader returns
\* on io.EOF without queueing it.
AfterChunkNoEOF(tmp, tmpEnd, err) ==
    [pc |-> IF Len(tmp) > 0 THEN "enqueue"
            ELSE IF err # ErrNil THEN "return" ELSE "read",
     tmp |-> tmp, tmpEnd |-> tmpEnd, err |-> ErrNil]

\* Where the reader goes once tmp and err of one round are known:
\* len(tmp) > 0 dispatches the chunk, else tmp goes back to the pool and the
\* error, if any, ends the reader.
AfterChunk(tmp, tmpEnd, err) ==
    [pc |-> IF Len(tmp) > 0 THEN "enqueue"
            ELSE IF err # ErrNil THEN "queueError" ELSE "read",
     tmp |-> tmp, tmpEnd |-> tmpEnd, err |-> err]

\* AfterRead without the read up to the next newline: the block is dispatched
\* as it was read.
AfterReadNoNewline(tmp, tmpEnd, err) ==
    IF err # ErrNil /\ err # ErrEOF
    THEN [pc |-> "queueError", tmp |-> <<>>, tmpEnd |-> tmpEnd, err |-> err]
    ELSE [pc |-> IF Len(tmp) > 0 THEN "enqueue"
                 ELSE IF err # ErrNil THEN "queueError" ELSE "read",
          tmp |-> tmp, tmpEnd |-> tmpEnd, err |-> err]

\* The reader after n, err := buf.Read(tmp), tmp = tmp[:n].
AfterRead(tmp, tmpEnd, err) ==
    IF err # ErrNil /\ err # ErrEOF
    THEN [pc |-> "queueError", tmp |-> <<>>, tmpEnd |-> tmpEnd, err |-> err]
    ELSE IF err # ErrEOF
    THEN [pc |-> "readBytes", tmp |-> tmp, tmpEnd |-> tmpEnd, err |-> err]
    ELSE AfterChunk(tmp, tmpEnd, err)

\* n, err := buf.Read(tmp) with len(tmp) = tmpSize = the size of buf:
\* buffered bytes are copied out; with an empty buffer a pending error is
\* returned, else r is read once, directly into tmp, and may return any
\* number of bytes from 1 to len(tmp), the last ones with or without the
\* final error of r.
ReaderRead ==
    /\ rd.pc = "read"
    /\ IF buffered # <<>>
       THEN /\ rd' = AfterRead(buffered, fetched, ErrNil)
            /\ buffered' = <<>>
            /\ UNCHANGED <<fetched, bErr, srcRead>>
       ELSE IF bErr # ErrNil
       THEN /\ rd' = AfterRead(<<>>, fetched, bErr)
            /\ bErr' = ErrNil
            /\ UNCHANGED <<fetched, buffered, srcRead>>
       ELSE /\ srcRead' = TRUE
            /\ UNCHANGED <<buffered, bErr>>
            /\ IF fetched = Len(src)
               THEN /\ rd' = AfterRead(<<>>, fetched, srcEnd)
                    /\ UNCHANGED fetched
               ELSE \E k \in 1..Min(tmpSize, Len(src) - fetched) :
                    \E e \in IF fetched + k = Len(src) THEN {ErrNil, srcEnd} ELSE {ErrNil} :
                       /\ fetched' = fetched + k
                       /\ rd' = AfterRead(SubSeq(src, fetched + 1, fetched + k),
                                          fetched + k, e)
    /\ UNCHANGED <<cfgVars, parseVars, outVars, fut, queue, queueClosed, sq, cpu>>

\* AfterReadBytes without tmp = append(tmp, b...): the bytes read up to the
\* newline are left out of the chunk.
AfterReadBytesDropRemainder(b, bEnd, err2) ==
    IF err2 # ErrNil /\ err2 # ErrEOF
    THEN [pc |-> "queueError", tmp |-> <<>>, tmpEnd |-> bEnd, err |-> err2]
    ELSE AfterChunk(rd.tmp, bEnd, err2)

\* The reader after b, err2 := buf.ReadBytes('\n'): a read error ends the
\* reader, else tmp = append(tmp, b...) and err = err2.
AfterReadBytes(b, bEnd, err2) ==
    IF err2 # ErrNil /\ err2 # ErrEOF
    THEN [pc |-> "queueError", tmp |-> <<>>, tmpEnd |-> bEnd, err |-> err2]
    ELSE AfterChunk(rd.tmp \o b, bEnd, err2)

\* b, err2 := buf.ReadBytes('\n'), entered with an empty buffer (Read drained
\* it): the bytes up to and including the next '\n', or up to the error of r,
\* which is then returned with them. The fills may have fetched up to
\* tmpSize - 1 bytes beyond the '\n', and the final error of r with them.
ReaderReadBytes ==
    /\ rd.pc = "readBytes"
    /\ buffered = <<>>
    /\ IF bErr # ErrNil
       THEN /\ rd' = AfterReadBytes(<<>>, fetched, bErr)
            /\ bErr' = ErrNil
            /\ UNCHANGED <<fetched, buffered, srcRead>>
       ELSE /\ srcRead' = TRUE
            /\ LET p == NextNewline(fetched) IN
               IF p = 0
               THEN /\ rd' = AfterReadBytes(SubSeq(src, fetched + 1, Len(src)),
                                            Len(src), srcEnd)
                    /\ fetched' = Len(src)
                    /\ UNCHANGED <<buffered, bErr>>
               ELSE \E extra \in 0..Min(tmpSize - 1, Len(src) - p) :
                    \E e \in IF p + extra = Len(src) THEN {ErrNil, srcEnd} ELSE {ErrNil} :
                       /\ rd' = AfterReadBytes(SubSeq(src, fetched + 1, p), p, ErrNil)
                       /\ fetched' = p + extra
                       /\ buffered' = SubSeq(src, p + 1, p + extra)
                       /\ bErr' = e
    /\ UNCHANGED <<cfgVars, parseVars, outVars, fut, queue, queueClosed, sq, cpu>>

\* ReaderEnqueue on a queue without a capacity: the send never blocks.
ReaderEnqueueUnbounded ==
    /\ rd.pc = "enqueue"
    /\ fut' = Append(fut, [kind |-> "chunk", data |-> rd.tmp, dataEnd |-> rd.tmpEnd,
                           st |-> "made", val |-> Item(NilValue, ErrNil, 0),
                           order |-> 0])
    /\ queue' = Append(queue, Len(fut) + 1)
    /\ rd' = [rd EXCEPT !.pc = "go"]
    /\ UNCHANGED <<cfgVars, parseVars, ioVars, outVars, queueClosed, sq, cpu>>

\* result := make(chan Stream, 0); queue <- result  (blocks while queue is full)
ReaderEnqueue ==
    /\ rd.pc = "enqueue"
    /\ Len(queue) < conc
    /\ fut' = Append(fut, [kind |-> "chunk", data |-> rd.tmp, dataEnd |-> rd.tmpEnd,
                           st |-> "made", val |-> Item(NilValue, ErrNil, 0),
                           order |-> 0])
    /\ queue' = Append(queue, Len(fut) + 1)
    /\ rd' = [rd EXCEPT !.pc = "go"]
    /\ UNCHANGED <<cfgVars, parseVars, ioVars, outVars, queueClosed, sq, cpu>>

\* go func() { ... }(): the chunk goroutine starts; then the reader ends on an
\* error (io.EOF) or goes round.
ReaderGo ==
    /\ rd.pc = "go"
    /\ fut' = [fut EXCEPT ![Len(fut)].st = "running"]
    /\ rd' = [rd EXCEPT !.pc = IF rd.err # ErrNil THEN "queueError" ELSE "read",
                        !.tmp = <<>>]
    /\ UNCHANGED <<cfgVars, parseVars, ioVars, outVars, queue, queueClosed, sq, cpu>>

\* queueError: result := make(chan Stream, 0); queue <- result; the reader
\* then blocks in result <- Stream{nil, err} until the sequencer receives.
queueError ==
    /\ rd.pc = "queueError"
    /\ Len(queue) < conc
    /\ fut' = Append(fut, [kind |-> "error", data |-> <<>>, dataEnd |-> rd.tmpEnd,
                           st |-> "sending",
                           val |-> Item(NilValue, rd.err, Len(fut) + 1),
                           order |-> 0])
    /\ queue' = Append(queue, Len(fut) + 1)
    /\ rd' = [rd EXCEPT !.pc = "queueErrorSend"]
    /\ UNCHANGED <<cfgVars, parseVars, ioVars, outVars, queueClosed, sq, cpu>>

\* defer close(queue)
ReaderClose ==
    /\ rd.pc = "return"
    /\ queueClosed' = TRUE
    /\ rd' = [rd EXCEPT !.pc = "done"]
    /\ UNCHANGED <<cfgVars, parseVars, ioVars, outVars, fut, queue, sq, cpu>>

\* ----------------------------------------- ParseNDStream: chunk goroutine
\* Number of chunk goroutines that have finished parsing; the order field of
\* a result channel records the rank at which its goroutine finished.
NumParsed == Cardinality({j \in 1..Len(fut) : fut[j].order > 0})

\* The chunk goroutine of result channel id: parseMessage(tmp, true); it then
\* blocks in result <- Stream{...} until the sequencer receives.
ChunkParse(id) ==
    /\ fut[id].kind = "chunk" /\ fut[id].st = "running"
    /\ fut' = [fut EXCEPT ![id].st = "sending",
                          ![id].val = ChunkResult(fut[id].data, id),
                          ![id].order = NumParsed + 1]
    /\ UNCHANGED <<cfgVars, parseVars, ioVars, outVars, rd, queue, queueClosed, sq, cpu>>

\* -------------------------------------------- ParseNDStream: sequencer
\* SeqRange taking any queued result channel instead of the oldest.
SeqRangeAnyOrder ==
    /\ sq.pc = "range"
    /\ IF queue # <<>>
       THEN /\ \E k \in 1..Len(queue) :
                 /\ sq' = [sq EXCEPT !.pc = "recv", !.items = queue[k]]
                 /\ queue' = SubSeq(queue, 1, k - 1) \o SubSeq(queue, k + 1, Len(queue))
            /\ UNCHANGED resClosed
       ELSE /\ queueClosed
            /\ resClosed' = resClosed + 1
            /\ sq' = [sq EXCEPT !.pc = "done"]
            /\ UNCHANGED queue
    /\ UNCHANGED <<cfgVars, parseVars, ioVars, rd, fut, queueClosed, cpu, delivered, ready, panicked, dropped>>

\* for items := range queue: the next result channel, in queue order; when
\* queue is closed and empty the loop ends and the deferred close(res) runs.
SeqRange ==
    /\ sq.pc = "range"
    /\ IF queue # <<>>
       THEN /\ sq' = [sq EXCEPT !.pc = "recv", !.items = Head(queue)]
            /\ queue' = Tail(queue)
            /\ UNCHANGED resClosed
       ELSE /\ queueClosed
            /\ resClosed' = resClosed + 1
            /\ sq' = [sq EXCEPT !.pc = "done"]
            /\ UNCHANGED queue
    /\ UNCHANGED <<cfgVars, parseVars, ioVars, rd, fut, queueClosed, cpu, delivered, ready, panicked, dropped>>

\* i := <-items: the rendezvous with the sender blocked on the unbuffered
\* result channel (a chunk goroutine, or the reader inside queueError, which
\* then returns).
SeqRecv ==
    /\ sq.pc = "recv"
    /\ fut[sq.items].st = "sending"
    /\ sq' = [sq EXCEPT !.pc = "select", !.i = fut[sq.items].val]
    /\ fut' = [fut EXCEPT ![sq.items].st = "done"]
    /\ rd' = IF fut[sq.items].kind = "error" THEN [rd EXCEPT !.pc = "return"] ELSE rd
    /\ UNCHANGED <<cfgVars, parseVars, ioVars, outVars, queue, queueClosed, cpu>>

\* SeqSelect closing res as soon as it has sent an error item (the deferred
\* close(res) still runs at the end of the loop).
SeqSelectCloseOnError ==
    /\ sq.pc = "select"
    /\ IF resClosed > 0
       THEN /\ panicked' = TRUE
            /\ sq' = [sq EXCEPT !.pc = "panic"]
            /\ UNCHANGED <<delivered, ready, dropped, resClosed>>
       ELSE IF ready
       THEN /\ delivered' = Append(delivered, sq.i)
            /\ ready' = FALSE
            /\ sq' = [sq EXCEPT !.pc = "range", !.end = sq.end \/ sq.i.Error # ErrNil]
            /\ resClosed' = IF sq.i.Error # ErrNil THEN resClosed + 1 ELSE resClosed
            /\ UNCHANGED <<panicked, dropped>>
       ELSE IF ~sq.end
       THEN /\ sq' = [sq EXCEPT !.pc = "send"]
            /\ UNCHANGED <<delivered, ready, panicked, dropped, resClosed>>
       ELSE /\ dropped' = Append(dropped, sq.i.id)
            /\ sq' = [sq EXCEPT !.pc = "range", !.end = sq.end \/ sq.i.Error # ErrNil]
            /\ UNCHANGED <<delivered, ready, panicked, resClosed>>
    /\ UNCHANGED <<cfgVars, parseVars, ioVars, rd, fut, queue, queueClosed, cpu>>

\* SeqSelect testing i.Error before the select instead of after it: an error
\* item is itself sent without blocking.
SeqSelectEndFirst ==
    /\ sq.pc = "select"
    /\ IF resClosed > 0
       THEN /\ panicked' = TRUE
            /\ sq' = [sq EXCEPT !.pc = "panic"]
            /\ UNCHANGED <<delivered, ready, dropped>>
       ELSE IF ready
       THEN /\ delivered' = Append(delivered, sq.i)
            /\ ready' = FALSE
            /\ sq' = [sq EXCEPT !.pc = "range", !.end = sq.end \/ sq.i.Error # ErrNil]
            /\ UNCHANGED <<panicked, dropped>>
       ELSE IF ~(sq.end \/ sq.i.Error # ErrNil)
       THEN /\ sq' = [sq EXCEPT !.pc = "send"]
            /\ UNCHANGED <<delivered, ready, panicked, dropped>>
       ELSE /\ dropped' = Append(dropped, sq.i.id)
            /\ sq' = [sq EXCEPT !.pc = "range", !.end = sq.end \/ sq.i.Error # ErrNil]
            /\ UNCHANGED <<delivered, ready, panicked>>
    /\ UNCHANGED <<cfgVars, parseVars, ioVars, rd, fut, queue, queueClosed, cpu, resClosed>>

\* SeqSelect without the test of end: an item the non-blocking send did not
\* pass is always sent with the blocking send.
SeqSelectAlwaysBlock ==
    /\ sq.pc = "select"
    /\ IF resClosed > 0
       THEN /\ panicked' = TRUE
            /\ sq' = [sq EXCEPT !.pc = "panic"]
            /\ UNCHANGED <<delivered, ready, dropped>>
       ELSE IF ready
       THEN /\ delivered' = Append(delivered, sq.i)
            /\ ready' = FALSE
            /\ sq' = [sq EXCEPT !.pc = "range", !.end = sq.end \/ sq.i.Error # ErrNil]
            /\ UNCHANGED <<panicked, dropped>>
       ELSE /\ sq' = [sq EXCEPT !.pc = "send"]
            /\ UNCHANGED <<delivered, ready, panicked, dropped>>
    /\ UNCHANGED <<cfgVars, parseVars, ioVars, rd, fut, queue, queueClosed, cpu, resClosed>>

\* select { case res <- i: default: if !end { res <- i } }: the send succeeds
\* at once when the consumer is waiting; else, before the first error the
\* sequencer goes on to the blocking send, after it the item is given up.
\* Then: if i.Error != nil { end = true }.
SeqSelect ==
    /\ sq.pc = "select"
    /\ IF resClosed > 0
       THEN /\ panicked' = TRUE
            /\ sq' = [sq EXCEPT !.pc = "panic"]
            /\ UNCHANGED <<delivered, ready, dropped>>
       ELSE IF ready
       THEN /\ delivered' = Append(delivered, sq.i)
            /\ ready' = FALSE
            /\ sq' = [sq EXCEPT !.pc = "range", !.end = sq.end \/ sq.i.Error # ErrNil]
            /\ UNCHANGED <<panicked, dropped>>
       ELSE IF ~sq.end
       THEN /\ sq' = [sq EXCEPT !.pc = "send"]
            /\ UNCHANGED <<delivered, ready, panicked, dropped>>
       ELSE /\ dropped' = Append(dropped, sq.i.id)
            /\ sq' = [sq EXCEPT !.pc = "range", !.end = sq.end \/ sq.i.Error # ErrNil]
            /\ UNCHANGED <<delivered, ready, panicked>>
    /\ UNCHANGED <<cfgVars, parseVars, ioVars, rd, fut, queue, queueClosed, cpu, resClosed>>

\* res <- i of the default branch: blocks until the consumer receives.
\* Then: if i.Error != nil { end = true }.
SeqSend ==
    /\ sq.pc = "send"
    /\ IF resClosed > 0
       THEN /\ panicked' = TRUE
            /\ sq' = [sq EXCEPT !.pc = "panic"]
            /\ UNCHANGED <<delivered, ready>>
       ELSE /\ ready
            /\ delivered' = Append(delivered, sq.i)
            /\ ready' = FALSE
            /\ sq' = [sq EXCEPT !.pc = "range", !.end = sq.end \/ sq.i.Error # ErrNil]
            /\ UNCHANGED panicked
    /\ UNCHANGED <<cfgVars, parseVars, ioVars, rd, fut, queue, queueClosed, cpu, resClosed, dropped>>

\* ------------------------------------------------------------ consumer
\* The caller's goroutine arrives at a receive on res (an unbuffered
\* channel) and waits there.
ConsumerReceive ==
    /\ entry = "ParseNDStream"
    /\ ~ready
    /\ resClosed = 0
    /\ ready' = TRUE
    /\ UNCHANGED <<cfgVars, parseVars, ioVars, rd, fut, queue, queueClosed, sq, cpu, delivered, resClosed, panicked, dropped>>

\* ============================================== Parse / ParseND messages
Max(a, b) == IF a > b THEN a ELSE b

\* The most structural tokens of a message of at most 8 KiB: its index
\* entries and the terminal marker fit the index channel.
ShortToks == Min(MaxToks, IndexBatch * (indexSlots - 3))

\* A message after bytes.TrimSpace: its structural tokens, its length in
\* bytes (at most 8 KiB, or more), and whether stage 1 finds it malformed.
Msgs ==
    {[toks |-> t, len |-> SequentialMax, bad |-> b] :
        t \in SeqsUpTo(Tokens, ShortToks), b \in BOOLEAN}
    \cup {[toks |-> t, len |-> SequentialMax + 1, bad |-> b] :
        t \in SeqsUpTo(Tokens, MaxToks), b \in BOOLEAN}

\* A message as handed to Parse / ParseND: pad bytes of white space around
\* it. White space is put around the messages of exactly 8 KiB, where it
\* takes the length of the input over the limit of the sequential branch.
RawMsgs ==
    {[msg |-> m, pad |-> 0] : m \in Msgs}
    \cup {[msg |-> m, pad |-> 1] : m \in {x \in Msgs : x.len = SequentialMax}}

\* bytes.TrimSpace: the white space around the message is cut off.
TrimSpace(raw) == [raw EXCEPT !.pad = 0]

\* len of a raw message
RawLen(raw) == raw.msg.len + raw.pad

\* ------------------------------------------- internalParsedJson.initialize
\* initialize without pj.Tape = pj.Tape[:0]: a tape of sufficient capacity
\* keeps its cells.
initializeKeepTape(p, size) ==
    LET avgTapeSize == (size * 15) \div 100
        stringsSize == Max(size \div 10, 128)
        p1 == IF p.capTape < avgTapeSize
              THEN [p EXCEPT !.Tape = <<>>, !.capTape = avgTapeSize]
              ELSE p
        p2 == IF ~p1.stringsNil /\ p1.capStrings >= stringsSize
              THEN [p1 EXCEPT !.Strings = <<>>]
              ELSE [p1 EXCEPT !.Strings = <<>>, !.stringsNil = FALSE,
                              !.capStrings = stringsSize]
        p3 == IF p2.capScope < maxdepth
              THEN [p2 EXCEPT !.capScope = maxdepth]
              ELSE p2
    IN  [p3 EXCEPT !.containingScopeOffset = <<>>, !.indexesChan = NoIndexChan]

\* pj.initialize(size): the tape, the strings arena and the scope stack are
\* reallocated when their capacity is too small and cut to length 0 else;
\* the current index entry is reset.
initialize(p, size) ==
    LET avgTapeSize == (size * 15) \div 100
        stringsSize == Max(size \div 10, 128)
        p1 == IF p.capTape < avgTapeSize
              THEN [p EXCEPT !.Tape = <<>>, !.capTape = avgTapeSize]
              ELSE [p EXCEPT !.Tape = <<>>]
        p2 == IF ~p1.stringsNil /\ p1.capStrings >= stringsSize
              THEN [p1 EXCEPT !.Strings = <<>>]
              ELSE [p1 EXCEPT !.Strings = <<>>, !.stringsNil = FALSE,
                              !.capStrings = stringsSize]
        p3 == IF p2.capScope < maxdepth
              THEN [p2 EXCEPT !.capScope = maxdepth]
              ELSE p2
    IN  [p3 EXCEPT !.containingScopeOffset = <<>>, !.indexesChan = NoIndexChan]

\* initialize(size) finds the tape and the strings arena of p large enough
\* and cuts them to length 0 instead of making new ones.
Suffices(p, size) ==
    /\ p.capTape >= (size * 15) \div 100
    /\ ~p.stringsNil /\ p.capStrings >= Max(size \div 10, 128)

\* parseMessage up to the stages: the message is trimmed and kept, the object
\* initialized, the NDJSON flag and the buffer offset (^uint64(0)) set, the
\* index channel made if there is none.
parseMessageBegin(p, raw, ndjson) ==
    LET m == TrimSpace(raw).msg
        p1 == initialize([p EXCEPT !.Message = m], m.len)
    IN  [p1 EXCEPT !.ndjson = IF ndjson THEN 1 ELSE 0,
                   !.indexChansNil = FALSE,
                   !.buffersOffset = 2 ^ OffsetBits - 1]

\* ------------------------------------------ stage 1: findStructuralIndices
\* The index entries stage 1 sends for the tokens toks: one entry per
\* IndexBatch tokens, then the terminal marker (index -1).
RECURSIVE Batches(_)
Batches(toks) ==
    IF toks = <<>> THEN <<>>
    ELSE LET n == Min(IndexBatch, Len(toks))
         IN  <<[index |-> 0, length |-> n, indexes |-> SubSeq(toks, 1, n)]>>
             \o Batches(SubSeq(toks, n + 1, Len(toks)))

TerminalMarker == [index |-> -1, length |-> 0, indexes |-> <<>>]

Entries(m) == Append(Batches(m.toks), TerminalMarker)

\* Stage 1 takes the next index buffer: atomic.AddUint64(&pj.buffersOffset, 1).
NextOffset(p) == [p EXCEPT !.buffersOffset = (@ + 1) % (2 ^ OffsetBits)]

\* ------------------------------------------------ stage 2: unifiedMachine
\* pj.write_tape: one cell <<tag, payload>> is appended to the tape.
WriteTape(p, tag, val) ==
    [p EXCEPT !.Tape = Append(@, <<tag, val>>),
              !.capTape = Max(@, Len(p.Tape) + 1)]

\* The start of a document: the offset of its root cell is pushed on the
\* scope stack and the root cell written.
UStart(p) ==
    WriteTape([p EXCEPT !.containingScopeOffset = Append(@, Len(p.Tape))], "r", 0)

ScopeTop(p) == p.containingScopeOffset[Len(p.containingScopeOffset)]
PopScope(p) ==
    [p EXCEPT !.containingScopeOffset = SubSeq(@, 1, Len(@) - 1)]

\* The scope is closed: its closing cell holds the offset of the opening
\* cell, which is patched to hold the offset of the closing one.
CloseScope(p, tag) ==
    LET open == ScopeTop(p)
        p1 == WriteTape(p, tag, open)
    IN  PopScope([p1 EXCEPT !.Tape[open + 1] = <<@[1], Len(p.Tape)>>])

\* The machine is at the top of a document that already has its value.
RootComplete(p) ==
    /\ Len(p.containingScopeOffset) = 1
    /\ Len(p.Tape) > ScopeTop(p) + 1

\* One token: [p, ok]. A further value after a complete document starts a
\* new document in NDJSON mode and fails otherwise; a close without an open
\* container fails.
UToken(p, t) ==
    IF p.containingScopeOffset = <<>> THEN [p |-> p, ok |-> FALSE]
    ELSE IF RootComplete(p) /\ p.ndjson = 0 THEN [p |-> p, ok |-> FALSE]
    ELSE LET q == IF RootComplete(p) THEN UStart(CloseScope(p, "r")) ELSE p IN
         IF t = "o"
         THEN [p |-> WriteTape([q EXCEPT !.containingScopeOffset = Append(@, Len(q.Tape))],
                               "o", 0),
               ok |-> TRUE]
         ELSE IF t = "c"
         THEN IF Len(q.containingScopeOffset) <= 1
              THEN [p |-> q, ok |-> FALSE]
              ELSE [p |-> CloseScope(q, "c"), ok |-> TRUE]
         ELSE [p |-> [WriteTape(q, "v", Len(q.Strings))
                        EXCEPT !.Strings = Append(@, "s"),
                               !.capStrings = Max(@, Len(q.Strings) + 1)],
               ok |-> TRUE]

\* The terminal marker was read: the parse succeeds iff the last document is
\* complete, and its root is then closed.
UEnd(p) ==
    IF p.containingScopeOffset # <<>> /\ RootComplete(p)
    THEN [p |-> CloseScope(p, "r"), ok |-> TRUE]
    ELSE [p |-> p, ok |-> FALSE]

\* updateChar and the handling of the token it yields: [p, ch, st, ok, done].
\* When the current index entry is used up the next one is received from the
\* index channel ch (st = "blocked" when it is empty); the terminal marker
\* sets done and ends the machine.
UStep(p, ch) ==
    LET cur == p.indexesChan IN
    IF cur.index >= cur.length
    THEN IF ch = <<>>
         THEN [p |-> p, ch |-> ch, st |-> "blocked", ok |-> TRUE, done |-> FALSE]
         ELSE LET e == Head(ch)
                  p1 == [p EXCEPT !.indexesChan = e]
              IN  IF e.index = -1
                  THEN LET r == UEnd(p1)
                       IN  [p |-> r.p, ch |-> Tail(ch), st |-> "end", ok |-> r.ok,
                            done |-> TRUE]
                  ELSE LET r == UToken([p1 EXCEPT !.indexesChan.index = 1], e.indexes[1])
                       IN  [p |-> r.p, ch |-> Tail(ch),
                            st |-> IF r.ok THEN "run" ELSE "end", ok |-> r.ok,
                            done |-> FALSE]
    ELSE LET r == UToken([p EXCEPT !.indexesChan.index = cur.index + 1],
                         cur.indexes[cur.index + 1])
         IN  [p |-> r.p, ch |-> ch, st |-> IF r.ok THEN "run" ELSE "end", ok |-> r.ok,
              done |-> FALSE]

\* unifiedMachine run to its end on the channel content ch; r is the result
\* of the next step, computed once.
RECURSIVE URun(_, _)
URun(p, ch) ==
    CHOOSE out \in {IF r.st = "run" THEN URun(r.p, r.ch) ELSE r : r \in {UStep(p, ch)}} :
        TRUE

unifiedMachine(p, ch) == URun(UStart(p), ch)

\* ------------------------------------------------------ Parse / ParseND
\* The entries left in the index channel once it was read up to and
\* including the first terminal marker (all of them when there is none).
RECURSIVE Drained(_)
Drained(ch) ==
    IF ch = <<>> THEN <<>>
    ELSE IF Head(ch).index = -1 THEN Tail(ch)
    ELSE Drained(Tail(ch))

HasMarker(ch) == \E k \in 1..Len(ch) : ch[k].index = -1

\* What Parse / ParseND return for the error err of parseMessage, and what
\* the caller then holds for reuse. Parse sets the internal field of its
\* result; the result of ParseND has none. A caller that passed a ParsedJson
\* with the internal field set may have passed a copy and still hold it.
Returned(err) ==
    /\ pm' = NoCall
    /\ g2' = NoG2
    /\ ret' = [fn |-> pm.fn, isNil |-> err # ErrNil, err |-> err,
               recycled |-> pm.arg = "internal", stale |-> pm.stale]
    /\ reuse' \in (IF pm.arg = "internal" THEN {"internal"} ELSE {})
                  \cup {IF err # ErrNil THEN (IF pm.arg = "internal" THEN "plain" ELSE "nil")
                        ELSE IF pm.fn = "Parse" THEN "internal" ELSE "plain"}

\* Parse(b, reuse) / ParseND(b, reuse) up to the stages of parseMessage:
\* newInternalParsedJson fails on an unsupported CPU, else takes the
\* internalParsedJson of reuse or a new one; parseMessage(b, false), resp.
\* parseMessage(bytes.TrimSpace(b), true), initializes it and takes the
\* sequential branch for a message of at most 8 KiB.
ParseCall(fn, arg, raw) ==
    /\ entry = "Parse"
    /\ pm.pc = "idle"
    /\ IF ~supported
       THEN /\ ret' = [fn |-> fn, isNil |-> TRUE, err |-> ErrCPU, recycled |-> FALSE,
                       stale |-> FALSE]
            /\ UNCHANGED <<pj, indexChans, pm, g2, reuse, pmCalled>>
       ELSE LET p0 == IF arg = "internal" THEN pj ELSE FreshPj
                b == IF fn = "ParseND" THEN TrimSpace(raw) ELSE raw
                p1 == parseMessageBegin([p0 EXCEPT !.copyStrings = TRUE], b, fn = "ParseND")
                long == p1.Message.len > SequentialMax
            IN  /\ pj' = p1
                /\ indexChans' = IF arg = "internal" THEN indexChans ELSE <<>>
                /\ pm' = [pc |-> IF long THEN "stage1" ELSE "sequential",
                          fn |-> fn, arg |-> arg,
                          stale |-> p0.Tape # <<>> /\ p0.containingScopeOffset # <<>>,
                          sent |-> 0, errStage1 |-> ErrNil,
                          sufficient |-> arg # "nil" /\ Suffices(pj, p1.Message.len),
                          kept |-> arg = "internal" /\ Suffices(p0, p1.Message.len)]
                /\ g2' = IF long THEN [pc |-> "start", err |-> ErrNil] ELSE NoG2
                /\ reuse' = arg
                /\ ret' = NoRet
                /\ pmCalled' = TRUE
    /\ UNCHANGED <<cfgVars, streamState>>

\* parseMessage, sequential branch, stage 1: findStructuralIndices sends all
\* its entries (it blocks for ever when the channel cannot take them); when
\* it fails the channel is read up to the terminal marker and the stage-1
\* error returned.
PmSequentialStage1 ==
    /\ pm.pc = "sequential"
    /\ LET es == Entries(pj.Message)
           ch == indexChans \o es
           p1 == [pj EXCEPT !.buffersOffset = (@ + Len(es) - 1) % (2 ^ OffsetBits)]
       IN  /\ pj' = p1
           /\ IF Len(ch) > indexSlots - 2
              THEN /\ indexChans' = SubSeq(ch, 1, indexSlots - 2)
                   /\ pm' = [pm EXCEPT !.pc = "blocked"]
                   /\ UNCHANGED <<g2, ret, reuse>>
              ELSE IF pj.Message.bad
              THEN /\ indexChans' = Drained(ch)
                   /\ Returned(ErrStage1)
              ELSE /\ indexChans' = ch
                   /\ pm' = [pm EXCEPT !.pc = "sequential2"]
                   /\ UNCHANGED <<g2, ret, reuse>>
    /\ UNCHANGED <<cfgVars, streamState, pmCalled>>

\* PmSequentialStage2 returning the stage-2 error at once, without the loop
\* that empties the channel.
PmSequentialStage2NoDrain ==
    /\ pm.pc = "sequential2"
    /\ \E r \in {unifiedMachine(pj, indexChans)} :
           /\ pj' = r.p
           /\ indexChans' = r.ch
           /\ IF r.st = "blocked"
              THEN /\ pm' = [pm EXCEPT !.pc = "blocked"]
                   /\ UNCHANGED <<g2, ret, reuse>>
              ELSE Returned(IF r.ok THEN ErrNil ELSE ErrStage2)
    /\ UNCHANGED <<cfgVars, streamState, pmCalled>>

\* parseMessage, sequential branch, stage 2: unifiedMachine; when it fails
\* the channel is emptied, up to the terminal marker at most, and the
\* stage-2 error returned.
PmSequentialStage2 ==
    /\ pm.pc = "sequential2"
    /\ \E r \in {unifiedMachine(pj, indexChans)} :
           /\ pj' = r.p
           /\ IF r.st = "blocked"
              THEN /\ indexChans' = r.ch
                   /\ pm' = [pm EXCEPT !.pc = "blocked"]
                   /\ UNCHANGED <<g2, ret, reuse>>
              ELSE IF ~r.ok
              THEN /\ indexChans' = Drained(r.ch)
                   /\ Returned(ErrStage2)
              ELSE /\ indexChans' = r.ch
                   /\ Returned(ErrNil)
    /\ UNCHANGED <<cfgVars, streamState, pmCalled>>

\* parseMessage, concurrent branch, stage 1 (the calling goroutine):
\* findStructuralIndices sends its next entry, blocking while the channel is
\* full; after the terminal marker it returns and parseMessage waits.
PmStage1Send ==
    /\ pm.pc = "stage1"
    /\ Len(indexChans) < indexSlots - 2
    /\ LET es == Entries(pj.Message)
           e == es[pm.sent + 1]
       IN  /\ indexChans' = Append(indexChans, e)
           /\ pj' = IF e.index = -1 THEN pj ELSE NextOffset(pj)
           /\ pm' = IF pm.sent + 1 = Len(es)
                    THEN [pm EXCEPT !.sent = @ + 1, !.pc = "wait",
                                    !.errStage1 = IF pj.Message.bad THEN ErrStage1
                                                  ELSE ErrNil]
                    ELSE [pm EXCEPT !.sent = @ + 1]
    /\ UNCHANGED <<cfgVars, streamState, g2, reuse, ret, pmCalled>>

\* The stage-2 goroutine without the loop that keeps consuming after a
\* failure.
AfterStage2NoDrain(ok, done) ==
    IF ok THEN [pc |-> "done", err |-> ErrNil]
    ELSE [pc |-> "done", err |-> ErrStage2]

\* The stage-2 goroutine once unifiedMachine returned (ok, done): a failure
\* sets err and, unless the terminal marker was read, goes on consuming.
AfterStage2(ok, done) ==
    IF ok THEN [pc |-> "done", err |-> ErrNil]
    ELSE IF ~done THEN [pc |-> "drain", err |-> ErrStage2]
    ELSE [pc |-> "done", err |-> ErrStage2]

\* The stage-2 goroutine: unifiedMachine starts.
G2Start ==
    /\ g2.pc = "start"
    /\ pj' = UStart(pj)
    /\ g2' = [g2 EXCEPT !.pc = "run"]
    /\ UNCHANGED <<cfgVars, streamState, indexChans, pm, reuse, ret, pmCalled>>

\* The stage-2 goroutine: unifiedMachine handles its next token, waiting
\* for stage 1 while the channel is empty.
G2Step ==
    /\ g2.pc = "run"
    /\ \E r \in {UStep(pj, indexChans)} :
           /\ r.st # "blocked"
           /\ pj' = r.p
           /\ indexChans' = r.ch
           /\ g2' = IF r.st = "run" THEN g2 ELSE AfterStage2(r.ok, r.done)
    /\ UNCHANGED <<cfgVars, streamState, pm, reuse, ret, pmCalled>>

\* The stage-2 goroutine after a failure: for idx := range pj.indexChans,
\* until the terminal marker.
G2Drain ==
    /\ g2.pc = "drain"
    /\ indexChans # <<>>
    /\ indexChans' = Tail(indexChans)
    /\ g2' = IF Head(indexChans).index = -1 THEN [g2 EXCEPT !.pc = "done"] ELSE g2
    /\ UNCHANGED <<cfgVars, streamState, pj, pm, reuse, ret, pmCalled>>

\* PmWait returning the error of the stage-2 goroutine when there is one,
\* and the stage-1 error only otherwise.
PmWaitStage2First ==
    /\ pm.pc = "wait"
    /\ g2.pc = "done"
    /\ Returned(IF g2.err # ErrNil THEN g2.err ELSE pm.errStage1)
    /\ UNCHANGED <<cfgVars, streamState, pj, indexChans, pmCalled>>

\* parseMessage, concurrent branch: wg.Wait() returns once the stage-2
\* goroutine is done; the stage-1 error goes before the stage-2 error.
PmWait ==
    /\ pm.pc = "wait"
    /\ g2.pc = "done"
    /\ Returned(IF pm.errStage1 # ErrNil THEN pm.errStage1 ELSE g2.err)
    /\ UNCHANGED <<cfgVars, streamState, pj, indexChans, pmCalled>>

\* ---------------------------------------------------------- parseNumber
\* The flags of the table isNumberRune; an entry of the table is the set of
\* its flags, the empty set for the zero entries.
isPartOfNumberFlag == "isPartOfNumberFlag"
isFloatOnlyFlag == "isFloatOnlyFlag"
isMinusFlag == "isMinusFlag"
isEOVFlag == "isEOVFlag"
isDigitFlag == "isDigitFlag"
isMustHaveDigitNext == "isMustHaveDigitNext"

IsDigit(c) == \E k \in 1..10 : DigitChars[k] = c
DigitVal(c) == (CHOOSE k \in 1..10 : DigitChars[k] = c) - 1

\* The bytes whose entry is isEOVFlag alone: they end a value.
EndOfValue == {",", "}", "]", " ", "\t", "\r", "\n", ":"}

isNumberRune(c) ==
    IF IsDigit(c) THEN {isPartOfNumberFlag, isDigitFlag}
    ELSE IF c = "." THEN {isPartOfNumberFlag, isFloatOnlyFlag, isMustHaveDigitNext}
    ELSE IF c = "+" THEN {isPartOfNumberFlag}
    ELSE IF c = "-" THEN {isPartOfNumberFlag, isMinusFlag, isMustHaveDigitNext}
    ELSE IF c \in {"e", "E"} THEN {isPartOfNumberFlag, isFloatOnlyFlag}
    ELSE IF c \in EndOfValue THEN {isEOVFlag}
    ELSE {}

\* Unsigned integers of any size are sequences of decimal digits, most
\* significant first; Norm drops the leading zeros ("0" is <<0>>).
RECURSIVE Norm(_)
Norm(d) == IF Len(d) > 1 /\ d[1] = 0 THEN Norm(Tail(d)) ELSE d

\* a < b for two normalised digit sequences.
Less(a, b) ==
    \/ Len(a) < Len(b)
    \/ /\ Len(a) = Len(b)
       /\ \E k \in 1..Len(a) : a[k] < b[k] /\ \A j \in 1..(k - 1) : a[j] = b[j]

Leq(a, b) == a = b \/ Less(a, b)

\* d with zeros in front, n digits long.
PadLeft(d, n) == [k \in 1..n |-> IF k <= n - Len(d) THEN 0 ELSE d[k - (n - Len(d))]]

\* a - b for digit sequences of the same length with a >= b, from position i
\* down, with the borrow of the positions below.
RECURSIVE SubDigits(_, _, _, _)
SubDigits(a, b, i, borrow) ==
    IF i = 0 THEN <<>>
    ELSE LET d == a[i] - b[i] - borrow
         IN  SubDigits(a, b, i - 1, IF d < 0 THEN 1 ELSE 0)
                 \o <<IF d < 0 THEN d + 10 ELSE d>>

\* a + b for digit sequences of the same length, from position i down, with
\* the carry of the positions below; the result is one digit longer.
RECURSIVE AddDigits(_, _, _, _)
AddDigits(a, b, i, carry) ==
    IF i = 0 THEN <<carry>>
    ELSE LET d == a[i] + b[i] + carry
         IN  AddDigits(a, b, i - 1, d \div 10) \o <<d % 10>>

\* uint64(i64): the two's complement of the int64 of magnitude mag.
Uint64OfInt64(neg, mag) ==
    IF ~neg \/ mag = <<0>> THEN mag
    ELSE Norm(SubDigits(TwoTo64, PadLeft(mag, 20), 20, 0))

\* The digits of the longest prefix of s made of decimal digits.
RECURSIVE DigitPrefix(_)
DigitPrefix(s) ==
    IF s # <<>> /\ IsDigit(s[1]) THEN <<DigitVal(s[1])>> \o DigitPrefix(Tail(s)) ELSE <<>>

\* strconv.ParseUint(s, 10, 64): the digits are consumed from the left; a
\* character that is not a digit is a syntax error, a value above 1<<64 - 1
\* a range error, whichever comes first.
ParseUint(s) ==
    CHOOSE out \in
        {IF s = <<>> THEN [err |-> "ErrSyntax", val |-> <<0>>]
         ELSE IF p # <<>> /\ Less(MaxUint64, Norm(p)) THEN [err |-> "ErrRange", val |-> MaxUint64]
         ELSE IF Len(p) < Len(s) THEN [err |-> "ErrSyntax", val |-> <<0>>]
         ELSE [err |-> ErrNil, val |-> Norm(p)] : p \in {DigitPrefix(s)}} : TRUE

\* strconv.ParseInt(s, 10, 64): an optional sign, then ParseUint; the
\* magnitude must be below 1<<63, or equal to it for a negative number.
ParseInt(s) ==
    IF s = <<>> THEN [err |-> "ErrSyntax", neg |-> FALSE, val |-> <<0>>]
    ELSE CHOOSE out \in
        {IF un.err = "ErrSyntax" THEN [err |-> "ErrSyntax", neg |-> FALSE, val |-> <<0>>]
         ELSE IF un.err = "ErrRange" THEN [err |-> "ErrRange", neg |-> s[1] = "-", val |-> MaxInt64]
         ELSE IF s[1] # "-" /\ Leq(TwoTo63, un.val)
              THEN [err |-> "ErrRange", neg |-> FALSE, val |-> MaxInt64]
         ELSE IF s[1] = "-" /\ Less(TwoTo63, un.val)
              THEN [err |-> "ErrRange", neg |-> TRUE, val |-> TwoTo63]
         ELSE [err |-> ErrNil, neg |-> s[1] = "-", val |-> un.val]
         : un \in {ParseUint(IF s[1] \in {"+", "-"} THEN Tail(s) ELSE s)}} : TRUE

\* The decimal exponent of strconv's readFloat: it stops growing at 10000.
RECURSIVE ExpVal(_, _)
ExpVal(d, e) ==
    IF d = <<>> THEN e
    ELSE ExpVal(Tail(d), IF e < 10000 THEN e * 10 + d[1] ELSE e)

\* Position of the first character of s that is in S, Len(s) + 1 if none.
FirstIn(s, S) ==
    IF \E k \in 1..Len(s) : s[k] \in S
    THEN CHOOSE k \in 1..Len(s) : s[k] \in S /\ \A j \in 1..(k - 1) : s[j] \notin S
    ELSE Len(s) + 1

\* The first digits of 1<<1024 - 1<<970, which is 0.17976...e309: a decimal
\* at or above it rounds to infinity.
Float64Limit == <<1,7,9,7,6,9,3,1,3,4,8,6,2,3,1,5,8,0,7,9,3,7,2,8>>

\* strconv.ParseFloat(s, 64) on the characters parseNumber lets through
\* (digits, '.', '+', '-', 'e', 'E'): sign, mantissa with at most one point
\* and at least one digit, optional exponent with at least one digit; the
\* whole of s must be used. A finite decimal too large for a float64 is a
\* range error (decided on the first 24 significant digits); one too small
\* is zero without error. The value is kept as the
\* decimal 0.digits * 10^exp10 that is rounded to the float64 (digits
\* without leading zeros, empty for zero).
ParseFloat(s) ==
    LET signed == s # <<>> /\ s[1] \in {"+", "-"}
        body == IF signed THEN Tail(s) ELSE s
        e == FirstIn(body, {"e", "E"})
        mant == SubSeq(body, 1, e - 1)
        hasExp == e <= Len(body)
        expPart == SubSeq(body, e + 1, Len(body))
        expSigned == expPart # <<>> /\ expPart[1] \in {"+", "-"}
        expDigits == IF expSigned THEN Tail(expPart) ELSE expPart
        point == FirstIn(mant, {"."})
        intPart == SubSeq(mant, 1, point - 1)
        fracPart == SubSeq(mant, point + 1, Len(mant))
        wellFormed ==
            /\ \A k \in 1..Len(intPart) : IsDigit(intPart[k])
            /\ \A k \in 1..Len(fracPart) : IsDigit(fracPart[k])
            /\ Len(intPart) + Len(fracPart) > 0
            /\ hasExp => (expDigits # <<>> /\ \A k \in 1..Len(expDigits) : IsDigit(expDigits[k]))
        syntaxError == [err |-> "ErrSyntax", neg |-> FALSE, digits |-> <<>>, exp10 |-> 0]
    IN  IF ~wellFormed THEN syntaxError
        ELSE CHOOSE out \in
            {IF Norm(all) = <<0>> THEN [err |-> ErrNil, neg |-> signed /\ s[1] = "-",
                                        digits |-> <<>>, exp10 |-> 0]
             ELSE CHOOSE o2 \in
                 {IF x > 309 \/ (x = 309 /\ Less(Float64Limit,
                                                [k \in 1..Len(Float64Limit) |->
                                                    IF k <= Len(Norm(all)) THEN Norm(all)[k] ELSE 0]))
                  THEN [err |-> "ErrRange", neg |-> signed /\ s[1] = "-",
                        digits |-> <<>>, exp10 |-> 0]
                  ELSE [err |-> ErrNil, neg |-> signed /\ s[1] = "-",
                        digits |-> Norm(all), exp10 |-> x]
                  : x \in {Len(intPart) - (Len(all) - Len(Norm(all)))
                           + (IF hasExp
                              THEN (IF expPart[1] = "-" THEN -1 ELSE 1) * ExpVal(DigitPrefix(expDigits), 0)
                              ELSE 0)}} : TRUE
             : all \in {DigitPrefix(intPart) \o DigitPrefix(fracPart)}} : TRUE

\* The two results parseNumber returns: id is the tag shifted to the top byte
\* or'ed with the float flags, kept as the pair of the two; val is a uint64
\* for TagInteger and TagUint and the bits of a float64 for TagFloat.
TagEnd == "TagEnd"
TagInteger == "TagInteger"
TagUint == "TagUint"
TagFloat == "TagFloat"
FloatOverflowedInteger == "FloatOverflowedInteger"

Id(tag, flags) == [tag |-> tag, flags |-> flags]
Float64bits(f) == [neg |-> f.neg, digits |-> f.digits, exp10 |-> f.exp10]

\* return 0, 0
NotANumber == [id |-> Id(TagEnd, {}), val |-> <<0>>]

\* 20, the longest token tried as an integer.
maxIntLen == 20

\* parseNumber, lines 69-86: the scan of buf from (1-based) position i on;
\* pos is the length of the token found so far, found the flags met.
RECURSIVE scanNumber(_, _, _, _)
scanNumber(b, i, pos, found) ==
    IF i > Len(b) THEN [ok |-> TRUE, pos |-> pos, found |-> found]
    ELSE CHOOSE out \in
        {IF t = {} THEN [ok |-> FALSE, pos |-> 0, found |-> {}]
         ELSE IF t = {isEOVFlag} THEN [ok |-> TRUE, pos |-> pos, found |-> found]
         ELSE IF /\ isMustHaveDigitNext \in t
                 /\ (Len(b) < i + 1 \/ isDigitFlag \notin isNumberRune(b[i + 1]))
              THEN [ok |-> FALSE, pos |-> 0, found |-> {}]
         ELSE scanNumber(b, i + 1, i, found \cup t)
         : t \in {isNumberRune(b[i])}} : TRUE

\* parseNumber, lines 127-135: the leading-zero test of the float branch and
\* strconv.ParseFloat; overflowed tells whether floatTag carries
\* FloatOverflowedInteger.
parseNumberFloat(b, pos, overflowed) ==
    IF pos > 1 /\ b[1] = "0" /\ isFloatOnlyFlag \notin isNumberRune(b[2])
    THEN NotANumber
    ELSE CHOOSE out \in
        {IF f.err = ErrNil
         THEN [id |-> Id(TagFloat, IF overflowed THEN {FloatOverflowedInteger} ELSE {}),
               val |-> Float64bits(f)]
         ELSE NotANumber
         : f \in {ParseFloat(SubSeq(b, 1, pos))}} : TRUE

\* parseNumber, lines 94-125, with the token length tried as an integer as
\* a parameter.
parseNumberInt(b, pos, found, intLen) ==
    IF isFloatOnlyFlag \notin found /\ pos <= intLen
    THEN IF \/ isMinusFlag \notin found /\ pos > 1 /\ b[1] = "0"
            \/ isMinusFlag \in found /\ pos > 2 /\ b[2] = "0"
         THEN NotANumber
         ELSE CHOOSE out \in
             {IF i64.err = ErrNil
              THEN [id |-> Id(TagInteger, {}), val |-> Uint64OfInt64(i64.neg, i64.val)]
              ELSE IF isMinusFlag \notin found
              THEN CHOOSE o2 \in
                  {IF u64.err = ErrNil
                   THEN [id |-> Id(TagUint, {}), val |-> u64.val]
                   ELSE parseNumberFloat(b, pos, i64.err = "ErrRange" \/ u64.err = "ErrRange")
                   : u64 \in {ParseUint(SubSeq(b, 1, pos))}} : TRUE
              ELSE parseNumberFloat(b, pos, i64.err = "ErrRange")
              : i64 \in {ParseInt(SubSeq(b, 1, pos))}} : TRUE
    ELSE parseNumberFloat(b, pos, isFloatOnlyFlag \notin found)

\* parseNumber trying tokens of at most 19 characters as integers.
parseNumberShortInt(b) ==
    CHOOSE out \in
        {IF ~s.ok \/ s.pos = 0 THEN NotANumber
         ELSE parseNumberInt(b, s.pos, s.found, maxIntLen - 1)
         : s \in {scanNumber(b, 1, 0, {})}} : TRUE

\* parseNumber(buf) (id, val)
parseNumber(b) ==
    CHOOSE out \in
        {IF ~s.ok \/ s.pos = 0 THEN NotANumber
         ELSE parseNumberInt(b, s.pos, s.found, maxIntLen)
         : s \in {scanNumber(b, 1, 0, {})}} : TRUE

\* A call of parseNumber on buf.
CallParseNumber ==
    /\ entry = "parseNumber"
    /\ ~num.done
    /\ \E r \in {parseNumber(buf)} : num' = [done |-> TRUE, id |-> r.id, val |-> r.val]
    /\ UNCHANGED <<entry, supported, gomaxprocs, src, srcEnd, buf, poolVars, streamState, parseVars>>

NumberNext == CallParseNumber

\* ------------------------------------- ParseNDStream: buffers and reuse
\* ParseNDStream seen as the flow of its byte buffers and of the results the
\* caller hands back on reuse. The bytes are left out: a pass of the reader
\* is described by what decides where its buffer goes (chunk empty or not,
\* append grown beyond the capacity or not, last pass or not), a parse by
\* its outcome (failed or not, capacity kept after the trim or not).

\* What the steps on the buffers leave alone.
nonPoolVars == <<entry, supported, gomaxprocs, src, srcEnd, numVars, streamState, parseVars>>

\* The backing array a tmpPool.Get() returns when the pool makes a new one
\* (make([]byte, tmpSize+1024)), or an append that has to grow.
NewArray == arrays + 1

\* tmp := tmpPool.Get().([]byte); tmp = tmp[:tmpSize]: the pool hands out one
\* of the slices put into it or makes a new one.
PoolReaderGet ==
    /\ entry = "ParseNDStreamBuffers"
    /\ bufReader.pc = "get"
    /\ bufReader.n < MaxChunks
    /\ \E b \in tmpPool \cup {[array |-> NewArray, by |-> "New"]} :
          /\ tmpPool' = tmpPool \ {b}
          /\ arrays' = IF b.array = NewArray THEN NewArray ELSE arrays
          /\ bufReader' = [bufReader EXCEPT !.pc = "fill", !.tmp = b.array, !.got = b.by]
    /\ UNCHANGED <<nonPoolVars, tasks, parsed, reuseChan>>

\* What the pass does with tmp once it is filled (lines 193-231): a chunk
\* that is not empty goes to a new chunk goroutine, in the array the append
\* of line 188 left it in (a new and larger one when it had to grow);
\* putBack tells whether tmp goes back to the pool.
ReaderDispatch(c, putBack) ==
    /\ tmpPool' = IF putBack
                  THEN tmpPool \cup {[array |-> bufReader.tmp, by |-> "reader"]}
                  ELSE tmpPool
    /\ arrays' = IF ~c.empty /\ c.grown THEN NewArray ELSE arrays
    /\ tasks' = IF c.empty THEN tasks
                ELSE tasks \cup {[n |-> bufReader.n + 1, pc |-> "select",
                                  tmp |-> IF c.grown THEN NewArray ELSE bufReader.tmp,
                                  v |-> 0]}
    /\ bufReader' = [pc |-> IF c.last THEN "done" ELSE "get",
                     tmp |-> 0, n |-> bufReader.n + 1, got |-> "none"]

\* The passes of the reader: an empty chunk has not grown.
ChunkCases == {c \in [empty : BOOLEAN, grown : BOOLEAN, last : BOOLEAN] : c.empty => ~c.grown}

\* The reader puts tmp back into the pool whether or not the chunk is empty.
PoolReaderFillAlwaysPut ==
    /\ bufReader.pc = "fill"
    /\ \/ /\ bufReader' = [bufReader EXCEPT !.pc = "done", !.tmp = 0, !.got = "none"]
          /\ UNCHANGED <<tmpPool, arrays, tasks>>
       \/ \E c \in ChunkCases : ReaderDispatch(c, TRUE)
    /\ UNCHANGED <<nonPoolVars, parsed, reuseChan>>

\* Lines 175-231, one pass of the reader after the Get: buf.Read and
\* buf.ReadBytes fill tmp; a read error ends the reader through queueError
\* (tmp is left to the garbage collector); otherwise the chunk is
\* dispatched, and only an empty tmp goes back to the pool.
PoolReaderFill ==
    /\ bufReader.pc = "fill"
    /\ \/ /\ bufReader' = [bufReader EXCEPT !.pc = "done", !.tmp = 0, !.got = "none"]
          /\ UNCHANGED <<tmpPool, arrays, tasks>>
       \/ \E c \in ChunkCases : ReaderDispatch(c, c.empty)
    /\ UNCHANGED <<nonPoolVars, parsed, reuseChan>>

\* The result made by the goroutine of pass n.
ResultOf(n) == CHOOSE r \in parsed : r.id = n

\* Lines 199-208 of a chunk goroutine: the select on reuse. It receives the
\* result at the head of the channel when there is one; a message of
\* sufficient capacity is put into the pool and taken off the result.
\* Without a result ready the default branch is taken.
TaskSelect(t) ==
    /\ t.pc = "select"
    /\ IF reuseChan # <<>>
       THEN /\ reuseChan' = Tail(reuseChan)
            /\ tasks' = (tasks \ {t}) \cup {[t EXCEPT !.pc = "parse", !.v = Head(reuseChan)]}
            /\ \E v \in {ResultOf(Head(reuseChan))} :
                  IF v.keep
                  THEN /\ tmpPool' = tmpPool \cup {[array |-> v.Message, by |-> "reuse"]}
                       /\ parsed' = (parsed \ {v}) \cup
                                       {[v EXCEPT !.owner = "task", !.Message = 0,
                                                  !.keep = FALSE]}
                  ELSE /\ parsed' = (parsed \ {v}) \cup {[v EXCEPT !.owner = "task"]}
                       /\ UNCHANGED tmpPool
       ELSE /\ tasks' = (tasks \ {t}) \cup {[t EXCEPT !.pc = "parse"]}
            /\ UNCHANGED <<tmpPool, parsed, reuseChan>>
    /\ UNCHANGED <<nonPoolVars, arrays, bufReader>>

\* Lines 210-222 of a chunk goroutine: parseMessage(tmp, true) and the send
\* on result, after which the goroutine returns. A failed parse sends an
\* item without Value; a successful one sends a copy of pj.ParsedJson, whose
\* Message is the trimmed tmp: it keeps the capacity of its array when tmp
\* has no leading white space and loses what is trimmed otherwise. The
\* result taken from reuse has given its buffers to pj and is done with.
TaskParse(t) ==
    /\ t.pc = "parse"
    /\ tasks' = tasks \ {t}
    /\ \E ok \in BOOLEAN, keep \in BOOLEAN :
          parsed' =
             {r \in parsed : r.id # t.v} \cup
             (IF ~ok THEN {}
              ELSE {[id |-> t.n, Message |-> t.tmp, keep |-> keep, owner |-> "sent"]})
    /\ UNCHANGED <<nonPoolVars, tmpPool, arrays, bufReader, reuseChan>>

\* Lines 154-167 and the caller's receive: a result that was sent reaches
\* the caller, or the sequencer gives it up (after the first error) and
\* nobody gets it.
PoolDeliver(r) ==
    /\ r.owner = "sent"
    /\ \/ parsed' = (parsed \ {r}) \cup {[r EXCEPT !.owner = "caller"]}
       \/ parsed' = parsed \ {r}
    /\ UNCHANGED <<nonPoolVars, tmpPool, arrays, bufReader, tasks, reuseChan>>

\* The caller hands a consumed result back with a non-blocking write to the
\* reuse channel (doc comment of ParseNDStream, lines 127-129), once.
CallerReturn(r) ==
    /\ r.owner = "caller"
    /\ Len(reuseChan) < ReuseCap
    /\ reuseChan' = Append(reuseChan, r.id)
    /\ parsed' = (parsed \ {r}) \cup {[r EXCEPT !.owner = "reuse"]}
    /\ UNCHANGED <<nonPoolVars, tmpPool, arrays, bufReader, tasks>>

PoolNext ==
    \/ PoolReaderGet
    \/ PoolReaderFill
    \/ \E t \in tasks : TaskSelect(t)
    \/ \E t \in tasks : TaskParse(t)
    \/ \E r \in parsed : PoolDeliver(r)
    \/ \E r \in parsed : CallerReturn(r)

ParseNext ==
    \/ /\ entry = "Parse" /\ pm.pc = "idle"
       /\ \E fn \in {"Parse", "ParseND"}, arg \in {"nil", reuse}, raw \in RawMsgs :
              ParseCall(fn, arg, raw)
    \/ PmSequentialStage1
    \/ PmSequentialStage2
    \/ PmStage1Send
    \/ G2Start
    \/ G2Step
    \/ G2Drain
    \/ PmWait

\* ---------------------------------------------------------------- Next
StreamNext ==
    \/ CallParseNDStream
    \/ CpuSend
    \/ CpuClose
    \/ ReaderRead
    \/ ReaderReadBytes
    \/ ReaderEnqueue
    \/ ReaderGo
    \/ queueError
    \/ ReaderClose
    \/ \E id \in 1..Len(fut) : ChunkParse(id)
    \/ SeqRange
    \/ SeqRecv
    \/ SeqSelect
    \/ SeqSend
    \/ ConsumerReceive

Next == StreamNext \/ ParseNext \/ NumberNext \/ PoolNext

\* Every entry point.
Spec == Init /\ [][Next]_vars

\* ParseNDStream alone.
StreamInit == entry = "ParseNDStream" /\ Init
StreamSpec == StreamInit /\ [][StreamNext]_vars

\* The buffers of ParseNDStream alone.
PoolInit == entry = "ParseNDStreamBuffers" /\ Init
PoolSpec == PoolInit /\ [][PoolNext]_vars

\* parseNumber alone, on every buffer of the input set.
NumberInit == entry = "parseNumber" /\ Init
NumberSpec == NumberInit /\ [][NumberNext]_vars

\* Parse and ParseND alone, called again and again.
ParseInit == entry = "Parse" /\ Init
ParseSpec == ParseInit /\ [][ParseNext]_vars

\* The goroutines take steps whenever they can (the Go scheduler), the source
\* answers every read, and the consumer keeps receiving from res.
FairStreamSpec ==
    /\ StreamSpec
    /\ WF_vars(CallParseNDStream)
    /\ WF_vars(CpuSend \/ CpuClose)
    /\ WF_vars(ReaderRead \/ ReaderReadBytes \/ ReaderEnqueue \/ ReaderGo
               \/ queueError \/ ReaderClose)
    /\ WF_vars(\E id \in 1..Len(fut) : ChunkParse(id))
    /\ WF_vars(SeqRange \/ SeqRecv \/ SeqSelect \/ SeqSend)
    /\ WF_vars(ConsumerReceive)

\* The goroutines of ParseNDStream take steps whenever they can and the
\* source answers every read; the consumer may stop receiving at any time.
FairGoroutinesSpec ==
    /\ StreamSpec
    /\ WF_vars(CallParseNDStream)
    /\ WF_vars(CpuSend \/ CpuClose)
    /\ WF_vars(ReaderRead \/ ReaderReadBytes \/ ReaderEnqueue \/ ReaderGo
               \/ queueError \/ ReaderClose)
    /\ WF_vars(\E id \in 1..Len(fut) : ChunkParse(id))
    /\ WF_vars(SeqRange \/ SeqRecv \/ SeqSelect \/ SeqSend)

\* The two stages take steps whenever they can (the Go scheduler).
FairParseSpec ==
    /\ ParseSpec
    /\ WF_vars(PmSequentialStage1 \/ PmSequentialStage2 \/ PmStage1Send \/ PmWait)
    /\ WF_vars(G2Start \/ G2Step \/ G2Drain)

\* ================================================================ claims
ChunkIds == {id \in 1..Len(fut) : fut[id].kind = "chunk"}
DeliveredIds == {delivered[k].id : k \in 1..Len(delivered)}

\* C1: the items delivered on res appear in the order in which their result
\* channels were submitted to queue, whatever the order in which the chunk
\* goroutines finish: the ids of the delivered items are strictly increasing.
C1_DeliveredInSubmissionOrder ==
    \A a, b \in 1..Len(delivered) : a < b => delivered[a].id < delivered[b].id

\* C1 witness: two chunk results were delivered in submission order although
\* the second chunk finished parsing before the first.
C1_Witness ==
    /\ Len(delivered) >= 2
    /\ delivered[1].id = 1 /\ delivered[2].id = 2
    /\ fut[1].kind = "chunk" /\ fut[2].kind = "chunk"
    /\ fut[2].order < fut[1].order

\* C2 (as claimed): once an item with a non-nil Error was delivered, no
\* further item is delivered: only the last delivered item may carry an error.
C2_NothingAfterTerminalItem ==
    \A k \in 1..Len(delivered) : delivered[k].Error # ErrNil => k = Len(delivered)

\* C3: for a source that ends with io.EOF and whose chunks all parse, a
\* consumer that keeps receiving gets the N chunk results (Value set, Error
\* nil), then one item with Error io.EOF, and res is closed.
CleanSource ==
    /\ supported
    /\ srcEnd = ErrEOF
    /\ \A k \in 1..Len(src) : src[k] # "x"

CleanDelivery ==
    /\ resClosed = 1
    /\ rd.pc = "done"
    /\ Len(delivered) = Cardinality(ChunkIds) + 1
    /\ \A k \in 1..(Len(delivered) - 1) :
          /\ delivered[k].id = k /\ k \in ChunkIds
          /\ ~delivered[k].Value.isNil /\ delivered[k].Value.Message = fut[k].data
          /\ delivered[k].Error = ErrNil
    /\ delivered[Len(delivered)] = Item(NilValue, ErrEOF, Len(fut))

C3_CleanSourceDeliversAllThenEOF == CleanSource => <>[]CleanDelivery

\* C3 witness: a clean source with two chunks was delivered completely.
C3_Witness == CleanSource /\ CleanDelivery /\ Cardinality(ChunkIds) >= 2

\* C4: on every path res is closed at most once, no send on res is attempted
\* after the close, and when the goroutines of the call have ended res is
\* closed exactly once.
C4_ClosedExactlyOnce ==
    /\ resClosed <= 1
    /\ ~panicked
    /\ (cpu = "done" \/ (rd.pc = "done" /\ sq.pc = "done")) => resClosed = 1

\* C4 witness: the stream ended after a chunk parse error and res is closed.
C4_Witness ==
    /\ sq.pc = "done" /\ rd.pc = "done" /\ resClosed = 1
    /\ \E k \in 1..Len(delivered) : delivered[k].Error = ErrParse

\* C5: every item the sequencer received up to and including the first one
\* with a non-nil error is delivered once the sequencer has gone past it: it
\* is never given up, the sequencer blocks on the send instead.
SeqPast(id) ==
    /\ fut[id].st = "done"
    /\ ~(sq.items = id /\ sq.pc \in {"select", "send"})

C5_NoDropUpToFirstError ==
    \A id \in 1..Len(fut) :
        (SeqPast(id) /\ \A j \in 1..(id - 1) : fut[j].val.Error = ErrNil)
            => id \in DeliveredIds

\* C5 witness: the first error item was not taken by the non-blocking send and
\* the sequencer is blocked on the send of it.
C5_Witness ==
    /\ sq.pc = "send" /\ ~ready
    /\ sq.i.Error # ErrNil
    /\ \A j \in 1..(sq.items - 1) : fut[j].val.Error = ErrNil

\* C6 (as claimed): the chunk goroutines started and not yet received from by
\* the sequencer are at most conc.
InFlight == {id \in ChunkIds : fut[id].st \in {"running", "sending"}}

C6_InFlightAtMostConc == Cardinality(InFlight) <= conc

\* C7: every chunk handed to a chunk goroutine is the bytes of src up to a
\* position that is just after a newline or the end of src.
C7_ChunkEndsOnRecordBoundary ==
    \A id \in ChunkIds :
        /\ fut[id].data = SubSeq(src, fut[id].dataEnd - Len(fut[id].data) + 1,
                                 fut[id].dataEnd)
        /\ fut[id].dataEnd = Len(src) \/ src[fut[id].dataEnd] = "\n"

\* C7 witness: a block that ended inside a record was extended to the next
\* newline, and the source goes on after it.
C7_Witness ==
    \E id \in ChunkIds :
        /\ fut[id].dataEnd < Len(src)
        /\ Len(fut[id].data) > tmpSize
        /\ fut[id].data[tmpSize] # "\n"

\* C8: on a CPU without the required features no entry point reads any input:
\* Parse and ParseND return a nil result and the unsupported-host error
\* without calling parseMessage; ParseNDStream never reads the source, sends
\* one item with that error and a nil Value and nothing else, and closes res.
CpuItem == Item(NilValue, ErrCPU, 0)

C8_UnsupportedHostReadsNothing ==
    ~supported =>
        /\ ~pmCalled /\ pm.pc = "idle"
        /\ ret.fn # "" => (ret.isNil /\ ret.err = ErrCPU)
        /\ ~srcRead /\ fetched = 0 /\ fut = <<>> /\ rd.pc \in {"start", "none"}
        /\ delivered \in {<<>>, <<CpuItem>>}
        /\ resClosed <= 1
        /\ resClosed = 1 => delivered = <<CpuItem>>
        /\ cpu = "done" => resClosed = 1

\* C8 witness: on an unsupported CPU ParseNDStream has delivered its one item
\* and closed res.
C8_Witness ==
    ~supported /\ cpu = "done" /\ resClosed = 1 /\ delivered = <<CpuItem>>

\* C8, second witness: on an unsupported CPU ParseND has returned.
C8_WitnessParseND ==
    ~supported /\ ret.fn = "ParseND" /\ ret.isNil /\ ret.err = ErrCPU

\* The tape and the strings arena of a parse of message m on a new
\* internalParsedJson.
FreshParse(m, ndjson) ==
    LET p0 == parseMessageBegin([FreshPj EXCEPT !.copyStrings = TRUE],
                                [msg |-> m, pad |-> 0], ndjson)
    IN  IF m.len <= SequentialMax /\ m.bad THEN p0
        ELSE unifiedMachine(p0, Entries(m)).p

\* C9: when a parse on a recycled internalParsedJson returns, its tape and
\* its strings arena are those of a parse of the same message on a new
\* object, whatever the earlier parses left in the recycled one.
C9_RecycledParseEqualsFreshParse ==
    (pm.pc = "idle" /\ ret.recycled) =>
        /\ pj.Tape = FreshParse(pj.Message, pj.ndjson = 1).Tape
        /\ pj.Strings = FreshParse(pj.Message, pj.ndjson = 1).Strings

\* C9 witness: a parse succeeded on a recycled object in which the parse
\* before had left tape cells and open scopes.
C9_Witness ==
    /\ pm.pc = "idle" /\ ret.recycled /\ ret.stale /\ ret.err = ErrNil
    /\ Len(pj.Tape) >= 4 /\ pj.Strings # <<>>

\* C10: in the concurrent branch stage 1 is never left blocked: the stage-2
\* goroutine ends only after the terminal marker was read, by the machine or
\* by the loop that drains the channel after a failure, the channel is then
\* empty, and parseMessage returns.
C10_ConcurrentParseReturns ==
    /\ [](g2.pc = "done" => (pm.pc = "wait" /\ indexChans = <<>>))
    /\ (pm.pc \in {"stage1", "wait"}) ~> (pm.pc = "idle")

\* C10 witness: stage 2 has failed before the terminal marker and drains the
\* channel, which is full, while stage 1 has more to send.
C10_Witness ==
    /\ g2.pc = "drain"
    /\ pm.pc = "stage1"
    /\ Len(indexChans) = indexSlots - 2

\* Stage 2 succeeds on the index stream of message m.
Stage2Ok(m, ndjson) ==
    unifiedMachine(parseMessageBegin([FreshPj EXCEPT !.copyStrings = TRUE],
                                     [msg |-> m, pad |-> 0], ndjson),
                   Entries(m)).ok

\* C11: parseMessage returns an error iff a stage failed: the stage-1 error
\* when stage 1 failed, whether or not stage 2 failed too, the stage-2 error
\* when only stage 2 failed, and nil when neither did, in both branches.
C11_ErrorIffStageFailed ==
    (pm.pc = "idle" /\ pmCalled) =>
        ret.err = IF pj.Message.bad THEN ErrStage1
                  ELSE IF ~Stage2Ok(pj.Message, pj.ndjson = 1) THEN ErrStage2
                  ELSE ErrNil

\* C11 witness: a message of more than 8 KiB on which both stages fail has
\* returned the stage-1 error.
C11_Witness ==
    /\ pm.pc = "idle" /\ pmCalled
    /\ pj.Message.len > SequentialMax
    /\ pj.Message.bad /\ ~Stage2Ok(pj.Message, pj.ndjson = 1)
    /\ ret.err = ErrStage1

\* C17: whenever parseMessage has returned, the index channel, which the
\* next parse on the same object uses again, is empty.
C17_IndexChannelEmptyOnReturn ==
    (pm.pc = "idle" /\ pmCalled) => indexChans = <<>>

\* C17 witness: in the sequential branch stage 2 failed before it had read
\* the terminal marker, and parseMessage has returned.
C17_Witness ==
    /\ pm.pc = "idle" /\ pmCalled
    /\ ret.err = ErrStage2
    /\ pj.Message.len <= SequentialMax
    /\ pj.indexesChan.index # -1
    /\ indexChans = <<>>

\* C15: a parse that was given a ParsedJson returned earlier, whose tape and
\* strings arena are large enough for the new message, writes into those
\* buffers instead of new ones.
C15_ReuseWritesIntoGivenBuffers ==
    (pm.pc # "idle" /\ pm.sufficient) => pm.kept

\* The chunks read from the source that are still in the pipeline: those
\* with a result channel whose item was neither delivered nor given up by the
\* sequencer, and the one the reader is reading or waiting to enqueue.
DroppedIds == {dropped[k] : k \in 1..Len(dropped)}
PendingChunks == {id \in ChunkIds : id \notin DeliveredIds /\ id \notin DroppedIds}
ReaderHolds == IF rd.pc \in {"readBytes", "enqueue"} THEN 1 ELSE 0
SeqHolds == IF sq.pc \in {"recv", "select", "send"} THEN 1 ELSE 0

ErrorDelivered == \E k \in 1..Len(delivered) : delivered[k].Error # ErrNil

StreamEnded ==
    /\ resClosed = 1
    /\ rd.pc \in {"done", "none"} /\ sq.pc \in {"done", "none"}
    /\ cpu \in {"done", "none"}
    /\ \A id \in 1..Len(fut) : fut[id].st = "done"

C18_EndsAfterFirstError ==
    /\ [](ErrorDelivered => sq.pc # "send")
    /\ ErrorDelivered ~> StreamEnded

\* C18 witness: after the first error item was delivered, a later item found
\* no consumer waiting and was given up, and the stream has ended.
C18_Witness ==
    /\ ErrorDelivered /\ StreamEnded
    /\ dropped # <<>> /\ ~ready

\* The chunks handed to chunk goroutines so far, concatenated in submission
\* order.
RECURSIVE ChunksUpTo(_)
ChunksUpTo(n) ==
    IF n = 0 THEN <<>>
    ELSE ChunksUpTo(n - 1) \o (IF fut[n].kind = "chunk" THEN fut[n].data ELSE <<>>)

\* C20: the chunks handed over are, concatenated, the bytes of src read and
\* consumed so far, and all of src once the reader has met io.EOF, whatever
\* the reads of the source returned.
C20_ChunksConcatenateToSource ==
    /\ (rd.err \in {ErrNil, ErrEOF} /\ rd.pc \in {"read", "readBytes", "enqueue"}) =>
          ChunksUpTo(Len(fut)) \o rd.tmp \o buffered = SubSeq(src, 1, fetched)
    /\ (srcEnd = ErrEOF /\ rd.pc \in {"queueErrorSend", "return", "done"}) =>
          ChunksUpTo(Len(fut)) = src

\* C20 witness: a source met io.EOF after two chunks, the first of which was
\* extended beyond the block up to a newline.
C20_Witness ==
    /\ srcEnd = ErrEOF /\ rd.pc = "done"
    /\ Cardinality(ChunkIds) >= 2
    /\ Len(fut[1].data) > tmpSize
    /\ ChunksUpTo(Len(fut)) = src

\* ---------------------------------------------------------- parseNumber
\* The token at the start of a buffer: its bytes up to the first end-of-value
\* byte.
NumToken(b) == SubSeq(b, 1, FirstIn(b, EndOfValue) - 1)

\* The token without its leading minus sign.
Unsigned(t) == IF t # <<>> /\ t[1] = "-" THEN Tail(t) ELSE t

\* The integer part of the token is a '0' immediately followed by a digit.
HasLeadingZero(t) ==
    Len(Unsigned(t)) >= 2 /\ Unsigned(t)[1] = "0" /\ IsDigit(Unsigned(t)[2])

\* C12: parseNumber returns (0, 0) for every token whose integer part is a
\* '0' immediately followed by another digit, with or without a minus sign,
\* integer or with a fraction or exponent, and it accepts "0", "-0", "0.5"
\* and "0e1".
C12_LeadingZeroRejected ==
    num.done =>
        /\ HasLeadingZero(NumToken(buf)) => (num.id = Id(TagEnd, {}) /\ num.val = <<0>>)
        /\ NumToken(buf) \in {<<"0">>, <<"-", "0">>, <<"0", ".", "5">>, <<"0", "e", "1">>}
               => num.id.tag # TagEnd

\* A token of at most 20 characters made of an optional minus sign and
\* digits, without a forbidden leading zero.
IsIntegerToken(t) ==
    /\ Len(t) <= 20
    /\ Unsigned(t) # <<>>
    /\ \A k \in 1..Len(Unsigned(t)) : IsDigit(Unsigned(t)[k])
    /\ ~HasLeadingZero(t)

\* The magnitude of an integer token.
Magnitude(t) == Norm(DigitPrefix(Unsigned(t)))

\* The value of the integer token lies in [-2^63, 2^63 - 1].
InInt64(t) ==
    IF t[1] = "-" THEN Leq(Magnitude(t), TwoTo63) ELSE Less(Magnitude(t), TwoTo63)

\* The integer token is unsigned and its value lies in [2^63, 2^64 - 1].
InUint64Only(t) ==
    t[1] # "-" /\ Leq(TwoTo63, Magnitude(t)) /\ Less(Magnitude(t), TwoTo64)

\* v is the two's complement, on 64 bits, of the int64 the token denotes.
IsTwosComplement(v, t) ==
    IF t[1] = "-" /\ Magnitude(t) # <<0>>
    THEN Norm(AddDigits(PadLeft(v, 20), PadLeft(Magnitude(t), 20), 20, 0)) = TwoTo64
    ELSE v = Magnitude(t)

OverflowedFloat == Id(TagFloat, {FloatOverflowedInteger})

\* C13: for every token of at most 20 characters made of an optional minus
\* sign and digits without a forbidden leading zero, parseNumber tags it
\* Integer, with the two's-complement payload, iff its value lies in
\* [-2^63, 2^63-1], tags it Uint iff it is unsigned and its value lies in
\* [2^63, 2^64-1], and otherwise tags it Float with the overflowed-integer
\* marker; 9223372036854775807 and -9223372036854775808 are Integer,
\* 9223372036854775808 and 18446744073709551615 are Uint,
\* 18446744073709551616 and -9223372036854775809 are overflowed floats.
C13_IntegerUintFloatByRange ==
    num.done =>
        /\ IsIntegerToken(NumToken(buf)) =>
               /\ num.id = Id(TagInteger, {}) <=> InInt64(NumToken(buf))
               /\ InInt64(NumToken(buf)) => IsTwosComplement(num.val, NumToken(buf))
               /\ num.id = Id(TagUint, {}) <=> InUint64Only(NumToken(buf))
               /\ InUint64Only(NumToken(buf)) => num.val = Magnitude(NumToken(buf))
               /\ (~InInt64(NumToken(buf)) /\ ~InUint64Only(NumToken(buf)))
                      => num.id = OverflowedFloat
        /\ buf \in {Lit(FALSE, MaxInt64), Lit(TRUE, TwoTo63)} => num.id.tag = TagInteger
        /\ buf \in {Lit(FALSE, TwoTo63), Lit(FALSE, MaxUint64)} => num.id.tag = TagUint
        /\ buf \in {Lit(FALSE, TwoTo64), Lit(TRUE, <<9,2,2,3,3,7,2,0,3,6,8,5,4,7,7,5,8,0,9>>)}
               => num.id = OverflowedFloat

\* parseNumber has returned on 18446744073709551615, the largest token that
\* is a Uint.
C13_Witness ==
    /\ num.done
    /\ buf = Lit(FALSE, MaxUint64)
    /\ num.id = Id(TagUint, {})
    /\ num.val = MaxUint64

\* ------------------------------------------- ParseNDStream: ownership
\* The results delivered, or on their way to the caller, and not handed
\* back on reuse.
NotReturned == {r \in parsed : r.owner \in {"sent", "caller"}}

\* The backing arrays of the slices in the pool.
Pooled == {b.array : b \in tmpPool}

\* C16: every input buffer and every reusable result has a single owner at
\* each moment: a buffer in the pool or being filled by the reader is never
\* referenced by a result delivered and not yet returned on the reuse queue
\* (nor by a running chunk task), and no two running chunk tasks hold the
\* same buffer or the same reused result.
C16_SingleOwner ==
    /\ \A r \in NotReturned :
           /\ r.Message \notin Pooled
           /\ r.Message # bufReader.tmp
           /\ \A t \in tasks : r.Message # t.tmp
           /\ \A q \in NotReturned : q # r => q.Message # r.Message
    /\ \A t \in tasks :
           /\ t.tmp \notin Pooled
           /\ t.tmp # bufReader.tmp
           /\ \A u \in tasks :
                  u # t => /\ u.tmp # t.tmp
                           /\ t.v # 0 => u.v # t.v

\* The reader fills again the buffer of a result that the caller handed
\* back and whose Message a chunk task has put into the pool, while the
\* caller holds another result.
C16_Witness ==
    /\ bufReader.pc = "fill"
    /\ bufReader.got = "reuse"
    /\ \E r \in parsed : r.owner = "caller"

====
